---- MODULE Spec2Model ----
(***************************************************************************)
(* Model of the two Markdown-to-DOCX converters of the repository:         *)
(*   src/convert_md_to_docx.py   (script = "md")                           *)
(*   src/convert_to_word.py      (script = "word")                         *)
(* A text is a sequence of one-character strings; a line stream is a       *)
(* sequence of texts.  The document built through python-docx is the       *)
(* sequence `out` of content commands, in the order of the doc.add_* calls.*)
(* A command is in `out` once the call that adds it has returned; a call    *)
(* that raises ends the run with the document unsaved (pc = "raised").     *)
(* The cursor `i` is 0-based as in the code: lines[i] there is At(lines,i).*)
(***************************************************************************)
EXTENDS Integers, Sequences, FiniteSets, TLC

VARIABLES script, lines, i, out, pc, log

vars == <<script, lines, i, out, pc, log>>

\* Longest line stream explored, over the lines of a table block or of a
\* fenced block.
MaxLines == 5

\* Longest line stream explored over the whole vocabulary.
MaxMixed == 3

-----------------------------------------------------------------------------
(* Python string primitives, on sequences of characters.                   *)

\* The grave accent, U+0060 (a string literal of the module cannot hold it).
Backtick == "GRAVE"

\* The characters str.strip() with no argument removes: those str.isspace()
\* holds of.  One a string literal has no escape for is written "U+" and its
\* code point.
Whitespace == {
    "\t", "\n", "U+000B", "\f", "\r", "U+001C",
    "U+001D", "U+001E", "U+001F", " ", "U+0085", "U+00A0",
    "U+1680", "U+2000", "U+2001", "U+2002", "U+2003", "U+2004",
    "U+2005", "U+2006", "U+2007", "U+2008", "U+2009", "U+200A",
    "U+2028", "U+2029", "U+202F", "U+205F", "U+3000" }

RECURSIVE lstrip(_)
lstrip(s) == IF s # <<>> /\ Head(s) \in Whitespace THEN lstrip(Tail(s)) ELSE s

RECURSIVE rstrip(_)
rstrip(s) ==
    IF s # <<>> /\ s[Len(s)] \in Whitespace
    THEN rstrip(SubSeq(s, 1, Len(s) - 1))
    ELSE s

strip(s) == rstrip(lstrip(s))

startswith(s, p) == Len(s) >= Len(p) /\ SubSeq(s, 1, Len(p)) = p

endswith(s, p) == Len(s) >= Len(p) /\ SubSeq(s, Len(s) - Len(p) + 1, Len(s)) = p

\* p in s
contains(s, p) == \E k \in 1..(Len(s) - Len(p) + 1) : SubSeq(s, k, k + Len(p) - 1) = p

\* s[n:]
from(s, n) == SubSeq(s, n + 1, Len(s))

\* s[2:-2]
slice_2_m2(s) == SubSeq(s, 3, Len(s) - 2)

\* xs[1:-1]
slice_1_m1(xs) == SubSeq(xs, 2, Len(xs) - 1)

\* s.split(c), c one character
RECURSIVE split(_, _)
split(s, c) ==
    IF \A k \in 1..Len(s) : s[k] # c
    THEN <<s>>
    ELSE LET k == CHOOSE k \in 1..Len(s) : s[k] = c /\ \A j \in 1..(k - 1) : s[j] # c
         IN  <<SubSeq(s, 1, k - 1)>> \o split(SubSeq(s, k + 1, Len(s)), c)

\* c.join(xs), c one character
RECURSIVE join(_, _)
join(xs, c) ==
    IF xs = <<>> THEN <<>>
    ELSE IF Len(xs) = 1 THEN xs[1]
    ELSE xs[1] \o <<c>> \o join(Tail(xs), c)

\* s.replace(p, ''): leftmost non-overlapping occurrences of p removed
RECURSIVE remove(_, _)
remove(s, p) ==
    IF s = <<>> THEN <<>>
    ELSE IF startswith(s, p) THEN remove(from(s, Len(p)), p)
    ELSE <<Head(s)>> \o remove(Tail(s), p)

\* [x.strip() for x in xs]
strip_all(xs) == [k \in 1..Len(xs) |-> strip(xs[k])]

\* lines[k], k 0-based
At(ls, k) == ls[k + 1]

-----------------------------------------------------------------------------
(* Texts python-docx refuses.                                              *)

\* The characters lxml does not take in the text of an element, python-docx
\* handing it every character but tab, line feed and carriage return: the
\* other control characters below U+0020, U+FFFE and U+FFFF.  Setting such a
\* text raises ValueError ("All strings must be XML compatible").
XmlRefused == {
    "U+0000", "U+0001", "U+0002", "U+0003", "U+0004", "U+0005",
    "U+0006", "U+0007", "U+0008", "U+000B", "\f", "U+000E",
    "U+000F", "U+0010", "U+0011", "U+0012", "U+0013", "U+0014",
    "U+0015", "U+0016", "U+0017", "U+0018", "U+0019", "U+001A",
    "U+001B", "U+001C", "U+001D", "U+001E", "U+001F", "U+FFFE",
    "U+FFFF" }

refused(text) == \E k \in 1..Len(text) : text[k] \in XmlRefused

-----------------------------------------------------------------------------
(* Content commands: one per doc.add_heading / add_paragraph / add_table.  *)

Cmd(kind, level, text, bold, headers, rows) ==
    [kind |-> kind, level |-> level, text |-> text, bold |-> bold,
     italic |-> FALSE, headers |-> headers, rows |-> rows]

Heading(text, level) == Cmd("Heading", level, text, FALSE, <<>>, <<>>)
Paragraph(text, bold) == Cmd("Paragraph", 0, text, bold, <<>>, <<>>)
Table(headers, rows) == Cmd("Table", 0, <<>>, FALSE, headers, rows)
CodeBlock(text) == Cmd("CodeBlock", 0, text, FALSE, <<>>, <<>>)
ListItem(text) == Cmd("ListItem", 0, text, FALSE, <<>>, <<>>)
Spacer == Cmd("Spacer", 0, <<>>, FALSE, <<>>, <<>>)

\* doc.add_heading(text, ...) or doc.add_paragraph(text, ...): the commands
\* appended and whether the call raises, nothing being appended when it does.
add(text, cmd) ==
    IF refused(text)
    THEN [cmds |-> <<>>, raised |-> TRUE]
    ELSE [cmds |-> <<cmd>>, raised |-> FALSE]

\* for i, cell_text in enumerate(cells): row_cells[i].text = cell_text, over a
\* row of width cells: the cells assigned and whether an assignment raises,
\* IndexError at a cell past the width, ValueError at a refused text.
assign(cells, width) ==
    LET bad == {k \in 1..Len(cells) : k > width \/ refused(cells[k])}
        stop == IF bad = {} THEN Len(cells) + 1
                ELSE CHOOSE k \in bad : \A j \in bad : k <= j
    IN  [cells |-> SubSeq(cells, 1, stop - 1), raised |-> bad # {}]

-----------------------------------------------------------------------------
(* The line streams explored: content.split('\n') of the file read, a line *)
(* holding no line break.                                                  *)

Vocabulary == {
    <<>>,
    <<"#", " ", " ", "a", "\f">>,
    <<"#", "#", " ", "a", "|">>,
    <<"#", "#", "#", " ", "-", " ", "a">>,
    <<"#", "#", "#", "#", " ", "*", "*", "a", "*", "*">>,
    <<"#", "|", "a", "|">>,
    <<Backtick, Backtick, Backtick>>,
    <<"|", "a", "|">>,
    <<"a", "|", "b">>,
    <<"-", "-", "-">>,
    <<"*", "*", "a", "*", "*">>,
    <<"*", "*", "a", "*", "*", " ", "b">>,
    <<" ", "*", "*", "a", "*", "*">>,
    <<"-", " ", "a">>,
    <<"a", "_", "-", "-", "-">>,
    <<"_", Backtick>> }

\* The lines of table blocks and what may follow one: a header or data line
\* of one cell and one of two, an all-empty data line, a separator, a line
\* without '|'.
TableVocabulary == {
    <<"|", "a", "|">>,
    <<"|", "a", "|", "b", "|">>,
    <<"|", " ", "|">>,
    <<"|", "-", "-", "-", "|">>,
    <<"-", " ", "a">> }

\* The lines of fenced blocks: a fence, a blank line, lines other rules
\* would take, a line python-docx refuses.
CodeVocabulary == {
    <<Backtick, Backtick, Backtick>>,
    <<>>,
    <<"-", " ", "a">>,
    <<"|", "a", "|">>,
    <<"\f">> }

\* Every stream of up to MaxMixed lines, and the streams of up to MaxLines
\* lines of a table block or of a fenced block.
Streams ==
    UNION { [1..n -> Vocabulary] : n \in 1..MaxMixed }
        \cup UNION { [1..n -> TableVocabulary] : n \in 1..MaxLines }
        \cup UNION { [1..n -> CodeVocabulary] : n \in 1..MaxLines }

-----------------------------------------------------------------------------
(* convert_md_to_docx.py                                                   *)

TitleText ==
    <<"O", "n", "e", "M", "i", "n", "d", " ", "A", "I", " ", "-", " ",
      "C", "o", "m", "p", "l", "e", "t", "e", " ",
      "H", "a", "r", "d", "c", "o", "d", "e", "d", " ",
      "V", "a", "l", "u", "e", "s", " ", "A", "u", "d", "i", "t">>

\* [h.strip() for h in line.split('|')[1:-1]]
md_cells(line) == strip_all(slice_1_m1(split(line, "|")))

\* row and any(cell for cell in row)
md_row_kept(row) == row # <<>> /\ \E k \in 1..Len(row) : row[k] # <<>>

\* The data-row loop of parse_table: <<rows, idx>> from cursor idx on.
RECURSIVE md_rows(_, _, _)
md_rows(ls, idx, rows) ==
    IF idx < Len(ls) /\ contains(At(ls, idx), <<"|">>)
    THEN LET row_line == strip(At(ls, idx))
             row == md_cells(row_line)
         IN  IF row_line = <<>> \/ startswith(row_line, <<"#">>)
             THEN <<rows, idx>>
             ELSE md_rows(ls, idx + 1,
                          IF md_row_kept(row) THEN Append(rows, row) ELSE rows)
    ELSE <<rows, idx>>

\* Mutant of md_skip_separator: the separator line is never skipped.
md_skip_separator_never(ls, idx) == idx

\* The separator test of parse_table: the cursor after the optional skip.
md_skip_separator(ls, idx) ==
    IF idx < Len(ls) /\ contains(At(ls, idx), <<"-", "-", "-">>)
    THEN idx + 1
    ELSE idx

parse_table(ls, start_idx) ==
    IF start_idx < Len(ls) /\ contains(At(ls, start_idx), <<"|">>)
    THEN LET header_line == strip(At(ls, start_idx))
             r == md_rows(ls, md_skip_separator(ls, start_idx + 1), <<>>)
         IN  [headers |-> md_cells(header_line), rows |-> r[1], idx |-> r[2]]
    ELSE [headers |-> <<>>, rows |-> <<>>, idx |-> start_idx]

\* The row loop of add_table_to_doc: the rows filled and whether an assignment
\* raises.  A row wider than the header indexes row_cells out of range at the
\* first extra cell (IndexError): the table then holds the rows filled so
\* far, the last one up to the cell that raised.
RECURSIVE md_fill(_, _, _)
md_fill(width, rows, done) ==
    IF rows = <<>> THEN [rows |-> done, raised |-> FALSE]
    ELSE LET a == assign(Head(rows), width)
         IN  IF a.raised
             THEN [rows |-> Append(done, a.cells), raised |-> TRUE]
             ELSE md_fill(width, Tail(rows), Append(done, a.cells))

\* add_table_to_doc: the commands appended and whether the call raises.  The
\* table is added before its cells are assigned.
add_table_to_doc(headers, rows) ==
    IF headers = <<>> \/ rows = <<>>
    THEN [cmds |-> <<>>, raised |-> FALSE]
    ELSE LET h == assign(headers, Len(headers))
             f == md_fill(Len(headers), rows, <<>>)
         IN  IF h.raised
             THEN [cmds |-> <<Table(h.cells, <<>>)>>, raised |-> TRUE]
             ELSE [cmds |-> <<Table(headers, f.rows)>>, raised |-> f.raised]

\* Mutant of MdBranch: the table test is written before the heading tests.
MdBranch_table_first(line) ==
    IF strip(line) = <<>> THEN "blank"
    ELSE IF contains(line, <<"|">>) THEN "table"
    ELSE IF startswith(line, <<"#", " ">>) THEN "h1"
    ELSE IF startswith(line, <<"#", "#", " ">>) THEN "h2"
    ELSE IF startswith(line, <<"#", "#", "#", " ">>) THEN "h3"
    ELSE IF startswith(line, <<"#", "#", "#", "#", " ">>) THEN "h4"
    ELSE IF startswith(line, <<"*", "*">>) THEN "bold"
    ELSE IF strip(line) # <<>> /\ ~startswith(line, <<"-", "-", "-">>) THEN "para"
    ELSE IF startswith(line, <<"-", "-", "-">>) THEN "rule"
    ELSE "else"

\* The branch of the if/elif chain of markdown_to_docx taken for a line.  The
\* chain's final else is not listed: a line with content that does not start
\* with '---' is a paragraph, and any other line with content is a rule.
MdBranch(line) ==
    IF strip(line) = <<>> THEN "blank"
    ELSE IF startswith(line, <<"#", " ">>) THEN "h1"
    ELSE IF startswith(line, <<"#", "#", " ">>) THEN "h2"
    ELSE IF startswith(line, <<"#", "#", "#", " ">>) THEN "h3"
    ELSE IF startswith(line, <<"#", "#", "#", "#", " ">>) THEN "h4"
    ELSE IF contains(line, <<"|">>) THEN "table"
    ELSE IF startswith(line, <<"*", "*">>) THEN "bold"
    ELSE IF strip(line) # <<>> /\ ~startswith(line, <<"-", "-", "-">>) THEN "para"
    ELSE IF startswith(line, <<"-", "-", "-">>) THEN "rule"
    ELSE "else"

\* The level of the heading branch taken.
HeadingLevel(branch) ==
    CASE branch = "h1" -> 1 [] branch = "h2" -> 2
      [] branch = "h3" -> 3 [] branch = "h4" -> 4

\* add_heading(doc, text, level)
add_heading(text, level) == add(text, Heading(text, level))

\* add_paragraph(doc, text, bold): the runs of the paragraph are made bold,
\* and the paragraph of an empty text has no run.
add_paragraph(text, bold) == add(text, Paragraph(text, bold /\ text # <<>>))

\* The heading branches: add_heading(doc, line[level+1:].strip(), level)
md_heading(line, level) == add_heading(strip(from(line, level + 1)), level)

\* The bold branch: add_paragraph(doc, line.replace('**', ''), bold=True)
md_bold(line) == add_paragraph(remove(line, <<"*", "*">>), TRUE)

\* The regular-paragraph branch: the paragraph is added when its text has
\* content.
md_paragraph(line) ==
    LET text == remove(remove(remove(line, <<"*", "*">>), <<Backtick>>), <<"_">>)
    IN  IF strip(text) # <<>> THEN add_paragraph(text, FALSE)
        ELSE [cmds |-> <<>>, raised |-> FALSE]

-----------------------------------------------------------------------------
(* convert_to_word.py                                                      *)

\* [cell.strip() for cell in line.split('|')[1:-1]]
wd_cells(line) == strip_all(slice_1_m1(split(line, "|")))

\* The row loop of add_table_from_markdown over lines[2:]: the rows added and
\* whether an assignment raises, the last row then held up to the cell that
\* raised.
RECURSIVE wd_rows(_, _, _)
wd_rows(header, ls, rows) ==
    IF ls = <<>> THEN [rows |-> rows, raised |-> FALSE]
    ELSE LET line == Head(ls)
             cells == wd_cells(line)
             a == assign(cells, Len(header))
         IN  IF strip(line) # <<>> /\ contains(line, <<"|">>)
                /\ Len(cells) = Len(header)
             THEN IF a.raised
                  THEN [rows |-> Append(rows, a.cells), raised |-> TRUE]
                  ELSE wd_rows(header, Tail(ls), Append(rows, cells))
             ELSE wd_rows(header, Tail(ls), rows)

\* add_table_from_markdown(doc, markdown_table): the commands appended and
\* whether the call raises.  The table is added before its cells are assigned.
add_table_from_markdown(markdown_table) ==
    LET ls == split(strip(markdown_table), "\n")
    IN  IF Len(ls) < 3 THEN [cmds |-> <<>>, raised |-> FALSE]
        ELSE LET header == wd_cells(ls[1])
                 h == assign(header, Len(header))
                 f == wd_rows(header, from(ls, 2), <<>>)
             IN  IF h.raised
                 THEN [cmds |-> <<Table(h.cells, <<>>)>>, raised |-> TRUE]
                 ELSE [cmds |-> <<Table(header, f.rows)>>, raised |-> f.raised]

\* Mutant of wd_code_lines: the interior lines are collected trimmed.
RECURSIVE wd_code_lines_trimmed(_, _, _)
wd_code_lines_trimmed(ls, k, code_lines) ==
    IF k < Len(ls) /\ ~startswith(At(ls, k), <<Backtick, Backtick, Backtick>>)
    THEN wd_code_lines_trimmed(ls, k + 1, Append(code_lines, strip(At(ls, k))))
    ELSE <<code_lines, k>>

\* The inner loop of the code-block branch: <<code_lines, i>> from cursor k on.
RECURSIVE wd_code_lines(_, _, _)
wd_code_lines(ls, k, code_lines) ==
    IF k < Len(ls) /\ ~startswith(At(ls, k), <<Backtick, Backtick, Backtick>>)
    THEN wd_code_lines(ls, k + 1, Append(code_lines, At(ls, k)))
    ELSE <<code_lines, k>>

\* Mutant of wd_code: the cursor is left on the closing fence.
wd_code_on_fence(ls, k) ==
    LET r == wd_code_lines(ls, k + 1, <<>>)
        code_text == join(r[1], "\n")
        a == add(code_text, CodeBlock(code_text))
    IN  [cmds |-> a.cmds, raised |-> a.raised, next |-> r[2]]

\* The code-block branch entered at cursor k: i += 1, the loop, the paragraph
\* added, and the cursor after the loop's closing i += 1; when
\* doc.add_paragraph(code_text) raises, the cursor the inner loop left.
wd_code(ls, k) ==
    LET r == wd_code_lines(ls, k + 1, <<>>)
        code_text == join(r[1], "\n")
        a == add(code_text, CodeBlock(code_text))
    IN  [cmds |-> a.cmds, raised |-> a.raised,
         next |-> IF a.raised THEN r[2] ELSE r[2] + 1]

\* The inner loop of the table branch: <<table_lines, i>> from cursor k on.
RECURSIVE wd_table_lines(_, _, _)
wd_table_lines(ls, k, table_lines) ==
    IF k < Len(ls) /\ startswith(strip(At(ls, k)), <<"|">>)
    THEN wd_table_lines(ls, k + 1, Append(table_lines, At(ls, k)))
    ELSE <<table_lines, k>>

\* Mutant of wd_table: the cursor is decremented and not incremented again.
wd_table_decremented(ls, k) ==
    LET r == wd_table_lines(ls, k + 1, <<At(ls, k)>>)
        a == add_table_from_markdown(join(r[1], "\n"))
    IN  [cmds |-> a.cmds, raised |-> a.raised,
         next |-> IF a.raised THEN r[2] ELSE r[2] - 1]

\* The table branch entered at cursor k: i += 1, the loop, the table added,
\* i -= 1, and the loop's closing i += 1; when add_table_from_markdown raises,
\* the cursor the inner loop left.
wd_table(ls, k) ==
    LET r == wd_table_lines(ls, k + 1, <<At(ls, k)>>)
        a == add_table_from_markdown(join(r[1], "\n"))
    IN  [cmds |-> a.cmds, raised |-> a.raised,
         next |-> IF a.raised THEN r[2] ELSE (r[2] - 1) + 1]

\* The branch of the if/elif chain of markdown_to_docx taken for a line.
WdBranch(line) ==
    IF startswith(line, <<"#", " ">>) THEN "h1"
    ELSE IF startswith(line, <<"#", "#", " ">>) THEN "h2"
    ELSE IF startswith(line, <<"#", "#", "#", " ">>) THEN "h3"
    ELSE IF startswith(line, <<"#", "#", "#", "#", " ">>) THEN "h4"
    ELSE IF startswith(line, <<Backtick, Backtick, Backtick>>) THEN "code"
    ELSE IF startswith(strip(line), <<"|">>) THEN "table"
    ELSE IF startswith(strip(line), <<"*", "*">>) /\ endswith(strip(line), <<"*", "*">>)
         THEN "bold"
    ELSE IF startswith(strip(line), <<"-", " ">>) THEN "list"
    ELSE IF strip(line) # <<>> /\ ~startswith(line, <<"#">>) /\ ~startswith(line, <<"|">>)
         THEN "para"
    ELSE "skip"

\* add_heading_with_style(doc, text, level)
add_heading_with_style(text, level) == add(text, Heading(text, level))

\* The heading branches: add_heading_with_style(doc, line[level+1:].strip(), level=level)
wd_heading(line, level) == add_heading_with_style(strip(from(line, level + 1)), level)

\* p = doc.add_paragraph(), then p.add_run(line.strip()[2:-2]) with
\* run.font.bold = True: the empty paragraph stays when add_run raises.
wd_bold(line) ==
    LET text == slice_2_m2(strip(line))
    IN  IF refused(text)
        THEN [cmds |-> <<Spacer>>, raised |-> TRUE]
        ELSE [cmds |-> <<Paragraph(text, TRUE)>>, raised |-> FALSE]

\* doc.add_paragraph(line.strip()[2:], style='List Bullet')
wd_list(line) == add(from(strip(line), 2), ListItem(from(strip(line), 2)))

\* doc.add_paragraph(line.strip())
wd_paragraph(line) == add(strip(line), Paragraph(strip(line), FALSE))

-----------------------------------------------------------------------------
(* State.                                                                  *)

Scanning(s) == pc = "scan" /\ script = s /\ i < Len(lines)

\* One iteration of a scan loop: the cursor moves to nxt, cmds are appended.
Step(nxt, cmds) ==
    /\ i' = nxt
    /\ out' = out \o cmds
    /\ log' = Append(log, [start |-> i, next |-> nxt, cmds |-> cmds,
                           raised |-> FALSE])
    /\ pc' = pc
    /\ UNCHANGED <<script, lines>>

\* An iteration a call raises out of: the cursor is where the branch left
\* it, the commands appended before the call stay, the run is over.
Raise(at, cmds) ==
    /\ i' = at
    /\ out' = out \o cmds
    /\ log' = Append(log, [start |-> i, next |-> at, cmds |-> cmds,
                           raised |-> TRUE])
    /\ pc' = "raised"
    /\ UNCHANGED <<script, lines>>

\* The outcome r of a branch: the iteration completes with the cursor at nxt,
\* or raises with the cursor at `at`.
Run(r, nxt, at) == IF r.raised THEN Raise(at, r.cmds) ELSE Step(nxt, r.cmds)

Init ==
    /\ script \in {"md", "word"}
    /\ lines \in Streams
    /\ i = 0
    /\ out = IF script = "md" THEN <<Heading(TitleText, 0)>> ELSE <<>>
    /\ pc = "scan"
    /\ log = <<>>

MdBlank ==
    /\ Scanning("md")
    /\ MdBranch(At(lines, i)) = "blank"
    /\ Step(i + 1, <<>>)

MdHeading ==
    /\ Scanning("md")
    /\ MdBranch(At(lines, i)) \in {"h1", "h2", "h3", "h4"}
    /\ Run(md_heading(At(lines, i), HeadingLevel(MdBranch(At(lines, i)))), i + 1, i)

MdTable ==
    /\ Scanning("md")
    /\ MdBranch(At(lines, i)) = "table"
    /\ LET t == parse_table(lines, i)
       IN  Run(add_table_to_doc(t.headers, t.rows), t.idx, i)

MdBold ==
    /\ Scanning("md")
    /\ MdBranch(At(lines, i)) = "bold"
    /\ Run(md_bold(At(lines, i)), i + 1, i)

MdParagraph ==
    /\ Scanning("md")
    /\ MdBranch(At(lines, i)) = "para"
    /\ Run(md_paragraph(At(lines, i)), i + 1, i)

MdRule ==
    /\ Scanning("md")
    /\ MdBranch(At(lines, i)) = "rule"
    /\ Step(i + 1, <<Spacer>>)

WdHeading ==
    /\ Scanning("word")
    /\ WdBranch(At(lines, i)) \in {"h1", "h2", "h3", "h4"}
    /\ Run(wd_heading(At(lines, i), HeadingLevel(WdBranch(At(lines, i)))), i + 1, i)

WdCode ==
    /\ Scanning("word")
    /\ WdBranch(At(lines, i)) = "code"
    /\ Run(wd_code(lines, i), wd_code(lines, i).next, wd_code(lines, i).next)

WdTable ==
    /\ Scanning("word")
    /\ WdBranch(At(lines, i)) = "table"
    /\ Run(wd_table(lines, i), wd_table(lines, i).next, wd_table(lines, i).next)

WdBold ==
    /\ Scanning("word")
    /\ WdBranch(At(lines, i)) = "bold"
    /\ Run(wd_bold(At(lines, i)), i + 1, i)

WdList ==
    /\ Scanning("word")
    /\ WdBranch(At(lines, i)) = "list"
    /\ Run(wd_list(At(lines, i)), i + 1, i)

WdParagraph ==
    /\ Scanning("word")
    /\ WdBranch(At(lines, i)) = "para"
    /\ Run(wd_paragraph(At(lines, i)), i + 1, i)

\* No branch of the chain matches: only the loop's closing i += 1 runs.
WdSkip ==
    /\ Scanning("word")
    /\ WdBranch(At(lines, i)) = "skip"
    /\ Step(i + 1, <<>>)

\* The loop condition fails: doc.save(docx_filepath).
Save ==
    /\ pc = "scan"
    /\ i >= Len(lines)
    /\ pc' = "saved"
    /\ UNCHANGED <<script, lines, i, out, log>>

Next ==
    \/ MdBlank
    \/ MdHeading
    \/ MdTable
    \/ MdBold
    \/ MdParagraph
    \/ MdRule
    \/ WdHeading
    \/ WdCode
    \/ WdTable
    \/ WdBold
    \/ WdList
    \/ WdParagraph
    \/ WdSkip
    \/ Save

Spec == Init /\ [][Next]_vars

-----------------------------------------------------------------------------
(* Vocabulary of the properties.                                           *)

\* The iterations of the scan loop entered so far, the one a call raised
\* out of included.
Entered == 1..Len(log)

\* The iterations of the scan loop completed so far.
Iter == {k \in Entered : ~log[k].raised}

\* The line an iteration classified.
LineOf(k) == At(lines, log[k].start)

\* The Table commands among cmds.
Tables(cmds) == {n \in 1..Len(cmds) : cmds[n].kind = "Table"}

RECURSIVE Flatten(_)
Flatten(ls) == IF ls = <<>> THEN <<>> ELSE Head(ls).cmds \o Flatten(Tail(ls))

\* The commands in the document before the scan starts.
Preamble == IF script = "md" THEN <<Heading(TitleText, 0)>> ELSE <<>>

\* The number of '#' characters a line begins with.
RECURSIVE LeadingHashes(_)
LeadingHashes(line) ==
    IF line # <<>> /\ Head(line) = "#" THEN 1 + LeadingHashes(Tail(line)) ELSE 0

\* One to four '#' characters followed by a space.
IsHeadingLine(line) ==
    /\ LeadingHashes(line) \in 1..4
    /\ Len(line) > LeadingHashes(line)
    /\ line[LeadingHashes(line) + 1] = " "

\* n '#' characters and a space: the prefix the n-th heading test looks for.
HeadingPrefix(n) == [m \in 1..(n + 1) |-> IF m <= n THEN "#" ELSE " "]

IsFence(line) == startswith(line, <<Backtick, Backtick, Backtick>>)

HasPipe(line) == \E n \in 1..Len(line) : line[n] = "|"

\* The number of '|' characters of a line.
Pipes(line) == Cardinality({n \in 1..Len(line) : line[n] = "|"})

\* Three or more hyphens and nothing else.
IsRuleLine(line) == Len(line) >= 3 /\ \A n \in 1..Len(line) : line[n] = "-"

\* Nothing but cell separators and whitespace.
AllEmpty(line) == \A n \in 1..Len(line) : line[n] \in Whitespace \cup {"|"}

\* Leading and trailing '|', once trimmed.
Piped(line) ==
    /\ Len(strip(line)) >= 2
    /\ Head(strip(line)) = "|"
    /\ strip(line)[Len(strip(line))] = "|"

-----------------------------------------------------------------------------
(* C3: headings.                                                           *)

\* C3: in both scripts, every line that an iteration run to completion has
\* classified at the top level and that begins with one to four '#' followed
\* by a space is emitted as exactly one Heading
\* whose level is the number of leading '#' and whose text is the line
\* without that prefix, trimmed, whatever else the line contains; the cursor
\* advances by exactly one line.  At most one of the four prefix tests matches
\* a line, so the order they are written in does not matter.
C3_HeadingLevelAndText ==
    \A k \in Iter :
        /\ Cardinality({n \in 1..4 : startswith(LineOf(k), HeadingPrefix(n))}) <= 1
        /\ IsHeadingLine(LineOf(k)) =>
               /\ log[k].cmds =
                      <<Heading(strip(from(LineOf(k), LeadingHashes(LineOf(k)) + 1)),
                                LeadingHashes(LineOf(k)))>>
               /\ log[k].next = log[k].start + 1

\* convert_md_to_docx.py, whose table rule takes any line holding a '|', has
\* classified a level-2 heading line that holds one, after an earlier line.
C3_Witness ==
    \E k \in Iter :
        /\ script = "md"
        /\ IsHeadingLine(LineOf(k))
        /\ HasPipe(LineOf(k))
        /\ log[k].start > 0
        /\ Len(log[k].cmds) = 1
        /\ log[k].cmds[1].level = LeadingHashes(LineOf(k))
        /\ log[k].cmds[1].level >= 2

-----------------------------------------------------------------------------
(* C4, C9: fenced code blocks of convert_to_word.py.                       *)

\* The closing fences of the block opened at line s (0-based): the lines
\* after s that start with three backticks.
Closers(s) == {e \in (s + 1)..(Len(lines) - 1) : IsFence(At(lines, e))}

Closed(s) == Closers(s) # {}

\* The first closing fence.
Closer(s) == CHOOSE e \in Closers(s) : \A f \in Closers(s) : e <= f

\* lines[a:b]
Between(a, b) == SubSeq(lines, a + 1, b)

\* C4: in convert_to_word.py, a fenced block (opening fence, interior lines,
\* closing fence) whose iteration ran to completion is emitted as exactly one
\* CodeBlock whose text is the
\* interior lines in order, blank ones included, joined by line breaks; no
\* fence line is in the text and no interior line is classified on its own.
C4_CodeBlockText ==
    script = "word" =>
        \A k \in Iter :
            (IsFence(LineOf(k)) /\ Closed(log[k].start)) =>
                /\ log[k].cmds =
                       <<CodeBlock(join(Between(log[k].start + 1,
                                                Closer(log[k].start)), "\n"))>>
                /\ \A m \in Entered :
                       ~(log[k].start < log[m].start
                         /\ log[m].start <= Closer(log[k].start))

\* A closed block of two different interior lines, one of them blank, has
\* been emitted as one CodeBlock whose text holds a line break, and the scan
\* has gone on to the line after the closing fence.
C4_Witness ==
    /\ script = "word"
    /\ pc = "saved"
    /\ \E k \in Iter :
           /\ IsFence(LineOf(k))
           /\ Closed(log[k].start)
           /\ Closer(log[k].start) = log[k].start + 3
           /\ \/ At(lines, log[k].start + 1) = <<>>
              \/ At(lines, log[k].start + 2) = <<>>
           /\ At(lines, log[k].start + 1) # At(lines, log[k].start + 2)
           /\ Len(log[k].cmds) = 1
           /\ log[k].cmds[1].kind = "CodeBlock"
           /\ \E n \in 1..Len(log[k].cmds[1].text) : log[k].cmds[1].text[n] = "\n"
           /\ k < Len(log)
           /\ log[k + 1].start = log[k].start + 4

\* C9: in convert_to_word.py, after the iteration of a closed block has run
\* to completion the scan resumes at the
\* line directly after the closing fence, which is not classified itself;
\* an unterminated block takes every remaining line into one CodeBlock, which
\* is emitted and is the last command, and the scan ends there, the cursor
\* having read no line past the end.
C9_ResumeAfterFence ==
    script = "word" =>
        \A k \in Iter :
            IsFence(LineOf(k)) =>
                IF Closed(log[k].start)
                THEN /\ log[k].next = Closer(log[k].start) + 1
                     /\ k < Len(log) => log[k + 1].start = Closer(log[k].start) + 1
                     /\ (k = Len(log) /\ Closer(log[k].start) + 1 < Len(lines))
                            => (pc = "scan" /\ i = Closer(log[k].start) + 1)
                ELSE /\ k = Len(log)
                     /\ log[k].cmds =
                            <<CodeBlock(join(Between(log[k].start + 1, Len(lines)), "\n"))>>
                     /\ out # <<>> /\ out[Len(out)] = log[k].cmds[1]
                     /\ i >= Len(lines)
                     /\ i <= Len(lines) + 1

\* Both cases in one scan: the line directly after a closing fence has been
\* classified, and it opened a block that the end of the stream left
\* unterminated, which was emitted before the document was saved.
C9_Witness ==
    /\ script = "word"
    /\ pc = "saved"
    /\ \E k \in Iter :
           /\ IsFence(LineOf(k)) /\ Closed(log[k].start)
           /\ k < Len(log)
           /\ log[k + 1].start = Closer(log[k].start) + 1
           /\ IsFence(LineOf(k + 1)) /\ ~Closed(log[k + 1].start)
           /\ Len(log[k + 1].cmds) = 1
           /\ log[k + 1].cmds[1].kind = "CodeBlock"

-----------------------------------------------------------------------------
(* C10: progress of the scan.                                              *)

\* C10: in both scripts every iteration run to completion leaves the cursor
\* strictly greater than it found it, each iteration starts where the last
\* one ended, so no line is classified twice, the scan takes at most one
\* iteration per line and then stops, the one a call raises out of being the
\* last, and the document holds the commands in source order.
C10_CursorAdvances ==
    /\ \A k \in Iter : log[k].next > log[k].start
    /\ \A k \in Entered : log[k].start = IF k = 1 THEN 0 ELSE log[k - 1].next
    /\ \A k \in Entered : log[k].start < Len(lines)
    /\ \A k \in Entered \ Iter :
           k = Len(log) /\ pc = "raised" /\ log[k].next >= log[k].start
    /\ i = IF log = <<>> THEN 0 ELSE log[Len(log)].next
    /\ i <= Len(lines) + 1
    /\ Len(log) <= Len(lines)
    /\ out = Preamble \o Flatten(log)
    /\ pc = "saved" => i >= Len(lines)

\* The table branch of convert_to_word.py, which decrements the cursor, has
\* taken two lines, and the scan went on to the line after them.
C10_Witness ==
    /\ script = "word"
    /\ pc = "saved"
    /\ \E k \in Iter :
           /\ k < Len(log)
           /\ WdBranch(LineOf(k)) = "table"
           /\ log[k].next = log[k].start + 2
           /\ log[k + 1].start = log[k].next
           /\ log[k + 1].cmds # <<>>

-----------------------------------------------------------------------------
(* C2: well-formed tables of convert_md_to_docx.py.                        *)

\* The data lines of a block of header, separator and n data lines at s.
DataLines(s, n) == (s + 2)..(s + 1 + n)

\* A header with leading and trailing '|' at s, a separator line holding
\* '---', then exactly n >= 1 contiguous lines holding '|'.
WellFormedBlock(s, n) ==
    /\ n >= 1
    /\ s + 1 + n < Len(lines)
    /\ Piped(At(lines, s))
    /\ contains(At(lines, s + 1), <<"-", "-", "-">>)
    /\ \A j \in DataLines(s, n) : HasPipe(At(lines, j))
    /\ s + 2 + n < Len(lines) => ~HasPipe(At(lines, s + 2 + n))

\* The data lines of the block that are not all-empty.
Qualifying(s, n) == {j \in DataLines(s, n) : ~AllEmpty(At(lines, j))}

\* The claim as stated: one Table for every well-formed block, the iteration
\* of the block having completed or raised while it filled the table.
C2_Original ==
    script = "md" =>
        \A k \in Entered : \A n \in 1..(Len(lines) - log[k].start - 2) :
            WellFormedBlock(log[k].start, n) =>
                /\ Len(parse_table(lines, log[k].start).headers)
                       = Pipes(At(lines, log[k].start)) - 1
                /\ Len(parse_table(lines, log[k].start).rows)
                       = Cardinality(Qualifying(log[k].start, n))
                /\ Cardinality(Tables(log[k].cmds)) = 1

\* C2 (amended): in convert_md_to_docx.py, for a block of a header with
\* leading and trailing '|', a separator line holding '---' and one or more
\* contiguous data lines that each have a leading and a trailing '|',
\* parse_table returns as many headers as the header line has cells and as
\* many rows as the block has data lines that are not all-empty, the
\* separator never being one; exactly one Table is added for the block when
\* that number is positive, and none when every data line is all-empty.  An
\* iteration that raised while it filled the table is one of those covered.
C2_WellFormedTable ==
    script = "md" =>
        \A k \in Entered : \A n \in 1..(Len(lines) - log[k].start - 2) :
            (/\ WellFormedBlock(log[k].start, n)
             /\ \A j \in DataLines(log[k].start, n) : Piped(At(lines, j))) =>
                /\ Len(parse_table(lines, log[k].start).headers)
                       = Pipes(At(lines, log[k].start)) - 1
                /\ Len(parse_table(lines, log[k].start).rows)
                       = Cardinality(Qualifying(log[k].start, n))
                /\ parse_table(lines, log[k].start).idx = log[k].start + 2 + n
                /\ Cardinality(Tables(log[k].cmds)) =
                       IF Qualifying(log[k].start, n) = {} THEN 0 ELSE 1
                /\ ~log[k].raised =>
                       \A t \in Tables(log[k].cmds) :
                           log[k].cmds[t].headers = parse_table(lines, log[k].start).headers

\* A well-formed block of two columns and two data lines, the first of them
\* all-empty, has been parsed into one Table of one row, and the line after
\* the block, which holds no '|', has been classified next and emitted.
C2_Witness ==
    /\ script = "md"
    /\ pc = "saved"
    /\ \E k \in Iter :
           /\ WellFormedBlock(log[k].start, 2)
           /\ \A j \in DataLines(log[k].start, 2) : Piped(At(lines, j))
           /\ AllEmpty(At(lines, log[k].start + 2))
           /\ ~AllEmpty(At(lines, log[k].start + 3))
           /\ Len(log[k].cmds) = 1
           /\ log[k].cmds[1].kind = "Table"
           /\ Len(log[k].cmds[1].headers) = 2
           /\ Len(log[k].cmds[1].rows) = 1
           /\ log[k].next = log[k].start + 4
           /\ k < Len(log)
           /\ log[k + 1].start = log[k].next
           /\ ~HasPipe(LineOf(k + 1))
           /\ log[k + 1].cmds # <<>>

-----------------------------------------------------------------------------
(* Claims the code does not meet.                                          *)

\* C1: in convert_md_to_docx.py, a table header followed by zero valid data
\* rows emits no Table, and parse_table consumes after the header only lines
\* of the table fragment (a pipe-delimited separator, data lines), so that a
\* following line without '|' is left to the main loop.
C1_EmptyTableConsumesOnlyFragment ==
    script = "md" =>
        \A k \in Iter :
            (MdBranch(LineOf(k)) = "table" /\ parse_table(lines, log[k].start).rows = <<>>) =>
                /\ log[k].cmds = <<>>
                /\ \A j \in (log[k].start + 1)..(log[k].next - 1) : HasPipe(At(lines, j))

\* C5: in convert_md_to_docx.py, once the document is saved every line of
\* three or more hyphens has had an iteration of its own that emitted exactly
\* one Spacer and advanced the cursor by one.
C5_EveryRuleIsSpacer ==
    (script = "md" /\ pc = "saved") =>
        \A j \in 0..(Len(lines) - 1) :
            IsRuleLine(At(lines, j)) =>
                \E k \in Iter :
                    /\ log[k].start = j
                    /\ log[k].cmds = <<Spacer>>
                    /\ log[k].next = j + 1

\* A line that no heading, code-fence or table rule of its script takes.
ReachesBoldRule(line) ==
    /\ ~IsHeadingLine(line)
    /\ script = "md" => (strip(line) # <<>> /\ ~HasPipe(line))
    /\ script = "word" => (~IsFence(line) /\ ~startswith(strip(line), <<"|">>))

\* C6: in both scripts, a line reaching the bold rule is emitted as a bold
\* Paragraph if and only if its trimmed text starts and ends with '**', the
\* text then being the trimmed line without the two markers.
C6_BoldIffWholeLine ==
    \A k \in Iter :
        ReachesBoldRule(LineOf(k)) =>
            IF /\ startswith(strip(LineOf(k)), <<"*", "*">>)
               /\ endswith(strip(LineOf(k)), <<"*", "*">>)
            THEN log[k].cmds = <<Paragraph(slice_2_m2(strip(LineOf(k))), TRUE)>>
            ELSE \A n \in 1..Len(log[k].cmds) : ~log[k].cmds[n].bold

\* C7: in both scripts, a line that begins with '- ' and that no earlier rule
\* takes is emitted as exactly one ListItem holding the rest of the line.
C7_ListItem ==
    \A k \in Iter :
        (/\ startswith(LineOf(k), <<"-", " ">>)
         /\ script = "md" => ~HasPipe(LineOf(k))) =>
            log[k].cmds = <<ListItem(from(strip(LineOf(k)), 2))>>

\* The rows collected for the table block an iteration took.
RowsCollected(k) ==
    IF script = "md"
    THEN {parse_table(lines, log[k].start).rows}
    ELSE {log[k].cmds[t].rows : t \in Tables(log[k].cmds)}

\* C8: in both scripts, in a block of header, separator and data lines, every
\* data line with a non-empty cell is among the rows collected for the Table,
\* whatever its number of cells, so that the Table of a block with such a
\* line never has zero rows.
C8_RaggedRowsKept ==
    \A k \in Iter :
        (/\ (IF script = "md" THEN MdBranch(LineOf(k)) ELSE WdBranch(LineOf(k))) = "table"
         /\ log[k].next > log[k].start + 2
         /\ contains(At(lines, log[k].start + 1), <<"-", "-", "-">>)) =>
            \A j \in (log[k].start + 2)..(log[k].next - 1) :
                md_row_kept(md_cells(strip(At(lines, j)))) =>
                    /\ RowsCollected(k) # {}
                    /\ \A rows \in RowsCollected(k) :
                           \E n \in 1..Len(rows) : rows[n] = md_cells(strip(At(lines, j)))
                    /\ \A t \in Tables(log[k].cmds) : log[k].cmds[t].rows # <<>>

====
